---- MODULE Spec2Model ----
(***************************************************************************)
(* jlek: a lexer generator.  Token specifications (name, regular           *)
(* expression) are compiled into one flat table of DFA states              *)
(* (regex_parser, lexer_spec) and the generated runtime lexer (lexer.rs)   *)
(* scans a source text with that table: longest match with backtracking.   *)
(*                                                                         *)
(* Characters are one-character strings; the sentinel '\0' is "NUL".       *)
(* A pattern and a source text are sequences of characters.                *)
(***************************************************************************)
EXTENDS Integers, Sequences, FiniteSets, TLC

VARIABLES
    \* ---- compilation (LexerSpec::new), one step per loop iteration
    token_specs,      \* LexerSpec.token_specs: sequence of [name, pattern]
    spec_idx,         \* index of the token specification fill_states works on
    cpc,              \* position of the compiler: "parse", "visit", "append", "done", "panic", "off"
    dfa,              \* create_dfa's `states`: sequence of [terminals, next]
    visited_states,   \* create_dfa's `visited_states`
    alphabet,         \* create_dfa's `alphabet`, in this HashSet's iteration order
    follow_pos_table, \* Cache.follow_pos_table of the pattern being compiled
    lexer_spec,       \* [states, initial_states] built so far
    \* ---- runtime lexer (lexer.rs)
    chars,            \* Lexer.chars
    states,           \* Lexer.states: class of every flat state
    transition_table, \* Lexer.transition_table
    initial_states,   \* the bottom frontier the lexer is generated with
    start_pos,        \* Lexer.start_pos (token-boundary marker)
    current_pos,      \* Lexer.current_pos (cursor)
    current_token,    \* Lexer.current_token (one-token cache)
    states_stack,     \* Lexer.states_stack (frontier stack)
    pc,               \* position inside peek_token/next_token, "idle" between calls
    op,               \* the public operation in progress or last finished
    ret,              \* what the last finished operation returned
    entry_pos         \* the cursor when the computation of the terminal last computed was called for

cvars == <<token_specs, spec_idx, cpc, dfa, visited_states, alphabet,
           follow_pos_table, lexer_spec>>
lvars == <<chars, states, transition_table, initial_states, start_pos,
           current_pos, current_token, states_stack, pc, op, ret, entry_pos>>
vars == <<cvars, lvars>>

(***************************************************************************)
(* Characters                                                              *)
(***************************************************************************)
NUL == "NUL"
Digits == <<"0", "1", "2", "3", "4", "5", "6", "7", "8", "9">>
LowercaseLetters ==
    <<"a", "b", "c", "d", "e", "f", "g", "h", "i", "j", "k", "l", "m",
      "n", "o", "p", "q", "r", "s", "t", "u", "v", "w", "x", "y", "z">>
Range(s) == {s[i] : i \in 1..Len(s)}

(***************************************************************************)
(* regex_parser/lexer.rs: the pattern lexer                                *)
(***************************************************************************)
NoToken == [kind |-> "None", ch |-> ""]
Tok(kind) == [kind |-> kind, ch |-> ""]
CharTok(c) == [kind |-> "Char", ch |-> c]

PatternLexerNew(pattern) ==
    [pattern |-> pattern, current_pos |-> 0, current_token |-> NoToken]

\* Lexer::char: the next pattern character, consumed, if there is one
LexerChar(l) ==
    IF l.current_pos < Len(l.pattern)
    THEN [some |-> TRUE, ch |-> l.pattern[l.current_pos + 1],
          lexer |-> [l EXCEPT !.current_pos = @ + 1]]
    ELSE [some |-> FALSE, ch |-> "", lexer |-> l]

LexOk(tok, l) == [ok |-> TRUE, tok |-> tok, err |-> "", lexer |-> l]
LexErr(msg, l) == [ok |-> FALSE, tok |-> NoToken, err |-> msg, lexer |-> l]

\* the match of Lexer::special_character on the character after a backslash
SpecialOf(r) ==
    IF r.some /\ r.ch \in {"*", "|", "(", ")", "\\"} THEN LexOk(CharTok(r.ch), r.lexer)
    ELSE IF r.some /\ r.ch = "d" THEN LexOk(Tok("Number"), r.lexer)
    ELSE IF r.some /\ r.ch = "w" THEN LexOk(Tok("Lowercase"), r.lexer)
    ELSE LexErr("Error while parsing special character", r.lexer)

\* Lexer::special_character
SpecialCharacter(l) == SpecialOf(LexerChar(l))

\* the match of Lexer::get on the character read
TokenOf(r) ==
    IF ~r.some THEN LexOk(Tok("End"), r.lexer)
    ELSE IF r.ch = "*" THEN LexOk(Tok("Star"), r.lexer)
    ELSE IF r.ch = "|" THEN LexOk(Tok("Or"), r.lexer)
    ELSE IF r.ch = "(" THEN LexOk(Tok("LeftParen"), r.lexer)
    ELSE IF r.ch = ")" THEN LexOk(Tok("RightParen"), r.lexer)
    ELSE IF r.ch = "\\" THEN SpecialCharacter(r.lexer)
    ELSE LexOk(CharTok(r.ch), r.lexer)

\* Lexer::get
LexerGet(l) == TokenOf(LexerChar(l))

\* current_token = Some(token) in Lexer::peek, unless get failed
Memoize(r) ==
    IF r.ok THEN [r EXCEPT !.lexer = [r.lexer EXCEPT !.current_token = r.tok]] ELSE r

\* Lexer::peek: memoized in current_token
LexerPeek(l) ==
    IF l.current_token = NoToken THEN Memoize(LexerGet(l))
    ELSE LexOk(l.current_token, l)

\* current_token = None in Lexer::next, unless peek failed
Forget(r) ==
    IF r.ok THEN [r EXCEPT !.lexer = [r.lexer EXCEPT !.current_token = NoToken]] ELSE r

\* Lexer::next
LexerNext(l) == Forget(LexerPeek(l))

(***************************************************************************)
(* regex_parser.rs: the recursive-descent parser                           *)
(***************************************************************************)
NoNode == [type |-> "None"]
Terminal(ch, pos) == [type |-> "Terminal", ch |-> ch, pos |-> pos]
Cat(left, right) == [type |-> "Cat", left |-> left, right |-> right]
Or(left, right) == [type |-> "Or", left |-> left, right |-> right]
Parenthesized(child) == [type |-> "Parenthesized", child |-> child]
Kleene(child) == [type |-> "Kleene", child |-> child]

RegexParserNew(pattern) ==
    [lexer |-> PatternLexerNew(pattern), current_pos |-> 0, alphabet |-> {}]

ParseOk(node, p) == [ok |-> TRUE, node |-> node, err |-> "", parser |-> p]
ParseErr(msg, p) == [ok |-> FALSE, node |-> NoNode, err |-> msg, parser |-> p]

\* SingleChar as it would be without self.alphabet.insert(ch)
SingleCharNoInsert(p, ch) ==
    ParseOk(Terminal(ch, p.current_pos), [p EXCEPT !.current_pos = @ + 1])

\* RegexParser::single_char
SingleChar(p, ch) ==
    ParseOk(Terminal(ch, p.current_pos),
            [p EXCEPT !.current_pos = @ + 1, !.alphabet = @ \cup {ch}])

\* the loop shared by RegexParser::number and RegexParser::lowercase:
\* a left-nested disjunction of one leaf per character of the class
RECURSIVE CharClass(_, _, _, _)
CharClassStep(leaf, class, i, node) ==
    CharClass(leaf.parser, class, i + 1,
              IF node = NoNode THEN leaf.node ELSE Or(node, leaf.node))

CharClass(p, class, i, node) ==
    IF i > Len(class) THEN ParseOk(node, p)
    ELSE CharClassStep(SingleChar(p, class[i]), class, i, node)

\* RegexParser::number
Number(p) == CharClass(p, Digits, 1, NoNode)

\* RegexParser::lowercase
Lowercase(p) == CharClass(p, LowercaseLetters, 1, NoNode)

\* RegexParser::is_in_follow_p2
IsInFollowP2(token) == token.kind \in {"Or", "End", "RightParen"}

\* the parser after a call of its lexer: the token (or the lexer's error)
\* and the parser holding the lexer as the call left it
Lexed(p, t) ==
    [ok |-> t.ok, tok |-> t.tok, err |-> t.err, parser |-> [p EXCEPT !.lexer = t.lexer]]

\* self.lexer.peek()
Peek(p) == Lexed(p, LexerPeek(p.lexer))

\* self.lexer.next()
Advance(p) == Lexed(p, LexerNext(p.lexer))

\* the match of RegexParser::p5 on the token taken
P5Of(t) ==
    IF ~t.ok THEN ParseErr(t.err, t.parser)
    ELSE IF t.tok.kind = "Char" THEN SingleChar(t.parser, t.tok.ch)
    ELSE IF t.tok.kind = "Number" THEN Number(t.parser)
    ELSE IF t.tok.kind = "Lowercase" THEN Lowercase(t.parser)
    ELSE ParseErr("Expected (special) character", t.parser)

\* RegexParser::p5
P5(p) == P5Of(Advance(p))

RECURSIVE P1(_), P1Rest(_), P1Loop(_, _), P2(_), P2Rest(_), P2Loop(_, _),
          P3(_), P4(_), P4Of(_), P4Inner(_)

\* RegexParser::p4 after the parenthesized p1: the closing parenthesis
P4Close(node, t) ==
    IF ~t.ok THEN ParseErr(t.err, t.parser)
    ELSE IF t.tok.kind # "RightParen"
    THEN ParseErr("Expected closing right parenthesis", t.parser)
    ELSE ParseOk(Parenthesized(node), Advance(t.parser).parser)

\* RegexParser::p4 after the parenthesized p1
P4Inner(inner) ==
    IF ~inner.ok THEN inner ELSE P4Close(inner.node, Peek(inner.parser))

\* the branch of RegexParser::p4 on the token peeked
P4Of(t) ==
    IF ~t.ok THEN ParseErr(t.err, t.parser)
    ELSE IF t.tok.kind = "LeftParen" THEN P4Inner(P1(Advance(t.parser).parser))
    ELSE P5(t.parser)

\* RegexParser::p4
P4(p) == P4Of(Peek(p))

\* RegexParser::p3 after p4: at most one trailing star
P3Star(node, t) ==
    IF ~t.ok THEN ParseErr(t.err, t.parser)
    ELSE IF t.tok.kind = "Star" THEN ParseOk(Kleene(node), Advance(t.parser).parser)
    ELSE ParseOk(node, t.parser)

P3Of(r) == IF ~r.ok THEN r ELSE P3Star(r.node, Peek(r.parser))

\* RegexParser::p3
P3(p) == P3Of(P4(p))

\* the body of the while loop of RegexParser::p2
P2Cat(acc, r) == IF ~r.ok THEN r ELSE P2Loop(r.parser, Cat(acc, r.node))

P2Test(acc, t) ==
    IF ~t.ok THEN ParseErr(t.err, t.parser)
    ELSE IF IsInFollowP2(t.tok) THEN ParseOk(acc, t.parser)
    ELSE P2Cat(acc, P3(t.parser))

\* the while loop of RegexParser::p2
P2Loop(p, acc) == P2Test(acc, Peek(p))

P2Rest(r) == IF ~r.ok THEN r ELSE P2Loop(r.parser, r.node)

\* RegexParser::p2
P2(p) == P2Rest(P3(p))

\* P1Or as it would be with the operands of the alternation exchanged
P1OrSwapped(acc, r) == IF ~r.ok THEN r ELSE P1Loop(r.parser, Or(r.node, acc))

\* the body of the while loop of RegexParser::p1
P1Or(acc, r) == IF ~r.ok THEN r ELSE P1Loop(r.parser, Or(acc, r.node))

P1Test(acc, t) ==
    IF ~t.ok THEN ParseErr(t.err, t.parser)
    ELSE IF t.tok.kind # "Or" THEN ParseOk(acc, t.parser)
    ELSE P1Or(acc, P2(Advance(t.parser).parser))

\* the while loop of RegexParser::p1
P1Loop(p, acc) == P1Test(acc, Peek(p))

P1Rest(r) == IF ~r.ok THEN r ELSE P1Loop(r.parser, r.node)

\* RegexParser::p1
P1(p) == P1Rest(P2(p))

\* RegexParser::augment
Augment(p, node) ==
    ParseOk(Cat(node, Terminal(NUL, p.current_pos)),
            [p EXCEPT !.current_pos = @ + 1])

\* RegexParser::parse after p1: the lookahead must be End
ParseEnd(node, t) ==
    IF ~t.ok THEN ParseErr(t.err, t.parser)
    ELSE IF t.tok.kind # "End" THEN ParseErr("Expected EOF", t.parser)
    ELSE Augment(t.parser, node)

ParseOf(r) == IF ~r.ok THEN r ELSE ParseEnd(r.node, Peek(r.parser))

\* RegexParser::parse
Parse(p) == ParseOf(P1(p))

ParseResult(r) ==
    [ok |-> r.ok, root |-> r.node, alphabet |-> r.parser.alphabet, err |-> r.err]

\* parse_regex: Ok((tree, alphabet)) or Err(message)
ParseRegex(pattern) == ParseResult(Parse(RegexParserNew(pattern)))

(***************************************************************************)
(* Option<T>: None is the empty sequence, Some(v) the one-element sequence *)
(***************************************************************************)
None == <<>>
Some(v) == <<v>>
IsSome(o) == Len(o) = 1
Unwrap(o) == o[1]

(***************************************************************************)
(* lexer_spec.rs: the position tables (Cache)                              *)
(***************************************************************************)
\* RegexTerminal { pos, ch }
RegexTerminal(node) == [pos |-> node.pos, ch |-> node.ch]

\* Cache::calculate_nullable / Cache::nullable
RECURSIVE Nullable(_)
Nullable(node) ==
    CASE node.type = "Cat" -> Nullable(node.left) /\ Nullable(node.right)
      [] node.type = "Or" -> Nullable(node.left) \/ Nullable(node.right)
      [] node.type = "Parenthesized" -> Nullable(node.child)
      [] node.type = "Kleene" -> TRUE
      [] node.type = "Terminal" -> FALSE

\* Cache::calculate_first_pos / Cache::first_pos
RECURSIVE FirstPos(_)
FirstPos(node) ==
    CASE node.type = "Cat" ->
            IF Nullable(node.left)
            THEN FirstPos(node.left) \cup FirstPos(node.right)
            ELSE FirstPos(node.left)
      [] node.type = "Or" -> FirstPos(node.left) \cup FirstPos(node.right)
      [] node.type \in {"Parenthesized", "Kleene"} -> FirstPos(node.child)
      [] node.type = "Terminal" -> {RegexTerminal(node)}

\* Cache::calculate_last_pos / Cache::last_pos
RECURSIVE LastPos(_)
LastPos(node) ==
    CASE node.type = "Cat" ->
            IF Nullable(node.right)
            THEN LastPos(node.right) \cup LastPos(node.left)
            ELSE LastPos(node.right)
      [] node.type = "Or" -> LastPos(node.left) \cup LastPos(node.right)
      [] node.type \in {"Parenthesized", "Kleene"} -> LastPos(node.child)
      [] node.type = "Terminal" -> {RegexTerminal(node)}

\* the two nested for loops of Cache::calculate_follow_pos: every terminal
\* of `lasts` gets an entry, and every terminal of `firsts` is inserted in it
InsertFollow(table, lasts, firsts) ==
    [t \in lasts |-> (IF t \in DOMAIN table THEN table[t] ELSE {}) \cup firsts]
    @@ table

\* Cache::calculate_follow_pos; the Or arm descends into the left operand
\* only (on the right operand it calls calculate_nullable, which leaves
\* follow_pos_table alone)
RECURSIVE CalculateFollowPos(_, _)
CalculateFollowPos(node, table) ==
    CASE node.type = "Cat" ->
            CalculateFollowPos(node.right,
                CalculateFollowPos(node.left,
                    InsertFollow(table, LastPos(node.left), FirstPos(node.right))))
      [] node.type = "Kleene" ->
            CalculateFollowPos(node.child,
                InsertFollow(table, LastPos(node.child), FirstPos(node.child)))
      [] node.type = "Parenthesized" -> CalculateFollowPos(node.child, table)
      [] node.type = "Or" -> CalculateFollowPos(node.left, table)
      [] node.type = "Terminal" -> table

EmptyMap == [x \in {} |-> {}]

\* Cache::new, as far as create_dfa reads it: follow_pos_table
CacheNew(root_node) == CalculateFollowPos(root_node, EmptyMap)

(***************************************************************************)
(* lexer_spec.rs: the DFA builder                                          *)
(***************************************************************************)
\* DfaState::new
DfaStateNew(terminals) == [terminals |-> terminals, next |-> EmptyMap]

\* IsAccepting as it would be with all() for any()
IsAcceptingAll(dfa_state) == \A t \in dfa_state.terminals : t.ch = NUL

\* DfaState::is_accepting
IsAccepting(dfa_state) == \E t \in dfa_state.terminals : t.ch = NUL

\* HashMap::insert
MapInsert(map, key, value) == (key :> value) @@ map

\* states.iter().position(|s| follow_pos_union == s.terminals), 0-based
Position(dfa_states, terminals) ==
    LET hits == {i \in 1..Len(dfa_states) : dfa_states[i].terminals = terminals}
    IN  IF hits = {} THEN None
        ELSE Some((CHOOSE i \in hits : \A j \in hits : i <= j) - 1)

\* FollowPosUnion as it would be without .filter(|&t| t.ch == *ch)
FollowPosUnionAnyChar(dfa_state, ch, follow) ==
    UNION {follow[t] : t \in {u \in dfa_state.terminals : u \in DOMAIN follow}}

\* the union of follow_pos over the terminals of a state that carry ch
FollowPosUnion(dfa_state, ch, follow) ==
    UNION {follow[t] : t \in {u \in dfa_state.terminals :
                                u.ch = ch /\ u \in DOMAIN follow}}

\* Transition as it would be with a plain else for the else if
\* !follow_pos_union.is_empty()
TransitionAllowEmpty(dfa_states, visited, ch, follow_pos_union, idx) ==
    IF IsSome(idx)
    THEN [dfa_states EXCEPT ![visited + 1].next = MapInsert(@, ch, Unwrap(idx))]
    ELSE Append([dfa_states EXCEPT ![visited + 1].next =
                                MapInsert(@, ch, Len(dfa_states))],
                DfaStateNew(follow_pos_union))

\* the if / else if of the body of `for ch in &alphabet` in create_dfa
Transition(dfa_states, visited, ch, follow_pos_union, idx) ==
    IF IsSome(idx)
    THEN [dfa_states EXCEPT ![visited + 1].next = MapInsert(@, ch, Unwrap(idx))]
    ELSE IF follow_pos_union # {}
    THEN Append([dfa_states EXCEPT ![visited + 1].next =
                                MapInsert(@, ch, Len(dfa_states))],
                DfaStateNew(follow_pos_union))
    ELSE dfa_states

VisitCharOf(dfa_states, visited, ch, follow_pos_union) ==
    Transition(dfa_states, visited, ch, follow_pos_union,
               Position(dfa_states, follow_pos_union))

\* one iteration of `for ch in &alphabet` in create_dfa
VisitChar(dfa_states, visited, ch, follow) ==
    VisitCharOf(dfa_states, visited, ch,
                FollowPosUnion(dfa_states[visited + 1], ch, follow))

\* the whole `for ch in &alphabet` loop for the state at index `visited`
RECURSIVE VisitState(_, _, _, _, _)
VisitState(dfa_states, visited, alphabet_seq, i, follow) ==
    IF i > Len(alphabet_seq) \/ visited >= Len(dfa_states) THEN dfa_states
    ELSE VisitState(VisitChar(dfa_states, visited, alphabet_seq[i], follow),
                    visited, alphabet_seq, i + 1, follow)

\* the while loop of create_dfa
RECURSIVE VisitAll(_, _, _, _)
VisitAll(dfa_states, visited, alphabet_seq, follow) ==
    IF visited >= Len(dfa_states) THEN dfa_states
    ELSE VisitAll(VisitState(dfa_states, visited, alphabet_seq, 1, follow),
                  visited + 1, alphabet_seq, follow)

\* LexerSpec::create_dfa after the pattern parsed: `alphabet_seq` is the
\* order in which this run iterates the HashSet alphabet
CreateDfa(root, alphabet_seq) ==
    VisitAll(<<DfaStateNew(FirstPos(root))>>, 0, alphabet_seq, CacheNew(root))

\* AppendDfa as it would be without `+ dfa_root_idx` on the targets
AppendDfaNoOffset(spec, token_spec, dfa_states) ==
    LET dfa_root_idx == Len(spec.states)
        flat(s) == [accepts |-> IF IsAccepting(s) THEN Some(token_spec.name) ELSE None,
                    next |-> s.next]
    IN  [states |-> spec.states \o [i \in 1..Len(dfa_states) |-> flat(dfa_states[i])],
         initial_states |-> Append(spec.initial_states, dfa_root_idx)]

\* the body of the for loop of LexerSpec::fill_states: the DFA of one
\* token specification is appended to the flat table
AppendDfa(spec, token_spec, dfa_states) ==
    LET dfa_root_idx == Len(spec.states)
        flat(s) == [accepts |-> IF IsAccepting(s) THEN Some(token_spec.name) ELSE None,
                    next |-> [c \in DOMAIN s.next |-> s.next[c] + dfa_root_idx]]
    IN  [states |-> spec.states \o [i \in 1..Len(dfa_states) |-> flat(dfa_states[i])],
         initial_states |-> Append(spec.initial_states, dfa_root_idx)]

EmptyLexerSpec == [states |-> <<>>, initial_states |-> <<>>]

(***************************************************************************)
(* The whole of LexerSpec::new as one function, for the tables the runtime *)
(* lexer is generated from.  `orders` gives, per token specification, the  *)
(* iteration order of its alphabet.  create_dfa unwraps the parse result:  *)
(* a malformed pattern panics and there is no LexerSpec.                   *)
(***************************************************************************)
RECURSIVE FillStates(_, _, _, _)
FillStatesOf(specs, orders, i, spec, parsed) ==
    IF ~parsed.ok THEN None
    ELSE FillStates(specs, orders, i + 1,
                    AppendDfa(spec, specs[i], CreateDfa(parsed.root, orders[i])))

FillStates(specs, orders, i, spec) ==
    IF i > Len(specs) THEN Some(spec)
    ELSE FillStatesOf(specs, orders, i, spec, ParseRegex(specs[i].pattern))

LexerSpecNew(specs, orders) == FillStates(specs, orders, 1, EmptyLexerSpec)

(***************************************************************************)
(* The boundary with the host types (symbol.rs) and with code generation:  *)
(* spans, terminals, the ordered enumeration of token classes, and the     *)
(* tables the generated lexer.rs is instantiated with.                     *)
(***************************************************************************)
SpanNew(start, end) == [start_pos |-> start, end_pos |-> end]
TerminalNew(class, span) == [class |-> class, span |-> span]
End == "End"

\* the rank of a token class in the enumeration: its declaration index
ClassOrd(specs, class) ==
    CHOOSE i \in 1..Len(specs) :
        /\ specs[i].name = class
        /\ \A j \in 1..Len(specs) : specs[j].name = class => i <= j

\* Lexer.states as generated from the flat table
GenStates(spec) == [i \in 1..Len(spec.states) |-> [class |-> spec.states[i].accepts]]

\* Lexer.transition_table as generated from the flat table
GenTransitionTable(spec) == [i \in 1..Len(spec.states) |-> spec.states[i].next]

(***************************************************************************)
(* lexer.rs: the runtime lexer                                             *)
(***************************************************************************)
\* char::is_whitespace on ASCII: space, \t, \n, \r, form feed and vertical
\* tab (written "VT")
IsWhitespace(c) == c \in {" ", "\n", "\t", "\r", "\f", "VT"}

\* Lexer.line_start_indices, computed by from_source_str
LineStartIndices(src) ==
    <<0>> \o SelectSeq([i \in 1..Len(src) |-> IF src[i] = "\n" THEN i ELSE -1],
                       LAMBDA x : x >= 0)

\* Lexer::peek_char at a cursor
PeekCharAt(src, pos) == IF pos < Len(src) THEN Some(src[pos + 1]) ELSE None
PeekChar == PeekCharAt(chars, current_pos)

\* Lexer::current_span
CurrentSpan == SpanNew(start_pos, current_pos)

\* SkipFrom as it would be with an if for the while: one character skipped
SkipOne(src, pos) ==
    IF IsSome(PeekCharAt(src, pos)) /\ IsWhitespace(Unwrap(PeekCharAt(src, pos)))
    THEN pos + 1
    ELSE pos

\* the cursor after the while loop of Lexer::skip_whitespaces
RECURSIVE SkipFrom(_, _)
SkipFrom(src, pos) ==
    IF IsSome(PeekCharAt(src, pos)) /\ IsWhitespace(Unwrap(PeekCharAt(src, pos)))
    THEN SkipFrom(src, pos + 1)
    ELSE pos

Repeat(c, n) == [i \in 1..n |-> c]

\* ShowSpan as it would be with the offset of the span in the input for its
\* offset in the line
ShowSpanAbsolute(src, span) ==
    LET line_start_indices == LineStartIndices(src)
        line_number == Cardinality({i \in 1..Len(line_start_indices) :
                                        line_start_indices[i] <= span.start_pos})
        line_start_idx == line_start_indices[line_number]
        line_end_idx == IF line_number + 1 <= Len(line_start_indices)
                        THEN line_start_indices[line_number + 1] - 1
                        ELSE Len(src)
        span_length == span.end_pos - span.start_pos
    IN  [line_number |-> line_number,
         line |-> SubSeq(src, line_start_idx + 1, line_end_idx),
         span_marker |-> Repeat(" ", span.start_pos) \o <<"^">>
                         \o Repeat("-", IF span_length >= 1 THEN span_length - 1 ELSE 0)]

\* Lexer::show_span: the line number, the text of the line, and the marker
\* line (spaces up to the column, a caret, dashes for the rest of the span)
ShowSpan(src, span) ==
    LET line_start_indices == LineStartIndices(src)
        line_number == Cardinality({i \in 1..Len(line_start_indices) :
                                        line_start_indices[i] <= span.start_pos})
        line_start_idx == line_start_indices[line_number]
        line_end_idx == IF line_number + 1 <= Len(line_start_indices)
                        THEN line_start_indices[line_number + 1] - 1
                        ELSE Len(src)
        span_offset == span.start_pos - line_start_idx
        span_length == span.end_pos - span.start_pos
    IN  [line_number |-> line_number,
         line |-> SubSeq(src, line_start_idx + 1, line_end_idx),
         span_marker |-> Repeat(" ", span_offset) \o <<"^">>
                         \o Repeat("-", IF span_length >= 1 THEN span_length - 1 ELSE 0)]

\* Lexer::report_error
ReportError ==
    [span_str |-> ShowSpan(chars, CurrentSpan),
     found |-> IF IsSome(PeekChar) THEN Unwrap(PeekChar) ELSE "EOF"]

\* NewStates as it would be if a state without a transition on `input`
\* stayed in the frontier
NewStatesKeepStuck(top, input) ==
    [i \in 1..Len(top) |->
        IF input \in DOMAIN transition_table[top[i] + 1]
        THEN transition_table[top[i] + 1][input]
        ELSE top[i]]

\* Lexer::move_states_on_stack: the frontier reached from the top frontier
\* on `input`, in the order of the states of the top frontier
NewStates(top, input) ==
    LET moves == SelectSeq(top, LAMBDA st : input \in DOMAIN transition_table[st + 1])
    IN  [i \in 1..Len(moves) |-> transition_table[moves[i] + 1][input]]

\* the classes of the accepting states of a frontier (evaluate_stack)
AcceptingClasses(frontier) ==
    {Unwrap(states[st + 1].class) :
        st \in {x \in Range(frontier) : IsSome(states[x + 1].class)}}

\* MinClass as it would be with max() for min()
MaxClass(classes) ==
    CHOOSE c \in classes :
        \A d \in classes : ClassOrd(token_specs, c) >= ClassOrd(token_specs, d)

\* accepting_classes.iter().copied().min()
MinClass(classes) ==
    CHOOSE c \in classes :
        \A d \in classes : ClassOrd(token_specs, c) <= ClassOrd(token_specs, d)

Top(stack) == stack[Len(stack)]
Pop(stack) == SubSeq(stack, 1, Len(stack) - 1)

NoReturn == [kind |-> "none"]
Ok(token) == [kind |-> "ok", token |-> token]
Err(report) == [kind |-> "err", report |-> report]

\* a caller calls peek_token (lexer.rs:90-91): a cached terminal is returned
\* as it is, otherwise the terminal is computed
CallPeekToken ==
    /\ pc = "idle"
    /\ op' = "peek"
    /\ entry_pos' = IF IsSome(current_token) THEN entry_pos ELSE current_pos
    /\ pc' = IF IsSome(current_token) THEN "return" ELSE "skip"
    /\ UNCHANGED <<cvars, chars, states, transition_table, initial_states, start_pos,
                   current_pos, current_token, states_stack, ret>>

\* a caller calls next_token (lexer.rs:83-84), which starts with peek_token
CallNextToken ==
    /\ pc = "idle"
    /\ op' = "next"
    /\ entry_pos' = IF IsSome(current_token) THEN entry_pos ELSE current_pos
    /\ pc' = IF IsSome(current_token) THEN "return" ELSE "skip"
    /\ UNCHANGED <<cvars, chars, states, transition_table, initial_states, start_pos,
                   current_pos, current_token, states_stack, ret>>

\* SkipWhitespaces as it would be without move_start_pos
SkipWhitespacesNoMove ==
    /\ pc = "skip"
    /\ LET pos == SkipFrom(chars, current_pos) IN
        /\ current_pos' = pos
        /\ start_pos' = start_pos
        /\ IF PeekCharAt(chars, pos) = None
           THEN /\ current_token' = Some(TerminalNew(End, SpanNew(start_pos, pos)))
                /\ pc' = "return"
           ELSE /\ current_token' = current_token
                /\ pc' = "get"
    /\ UNCHANGED <<cvars, chars, states, transition_table, initial_states,
                   states_stack, op, ret, entry_pos>>

\* peek_token, lexer.rs:92-95: skip_whitespaces (the cursor moves over the
\* whitespace and the boundary marker follows it), then at end of input the
\* End terminal is cached, otherwise the match loop starts
SkipWhitespaces ==
    /\ pc = "skip"
    /\ LET pos == SkipFrom(chars, current_pos) IN
        /\ current_pos' = pos
        /\ start_pos' = pos
        /\ IF PeekCharAt(chars, pos) = None
           THEN /\ current_token' = Some(TerminalNew(End, SpanNew(pos, pos)))
                /\ pc' = "return"
           ELSE /\ current_token' = current_token
                /\ pc' = "get"
    /\ UNCHANGED <<cvars, chars, states, transition_table, initial_states,
                   states_stack, op, ret, entry_pos>>

\* Get as it would be if the match loop stopped at the first frontier that
\* holds an accepting state
GetStopAtAccepting ==
    /\ pc = "get"
    /\ LET new_states == IF IsSome(PeekChar) /\ AcceptingClasses(Top(states_stack)) = {}
                         THEN NewStates(Top(states_stack), Unwrap(PeekChar))
                         ELSE <<>>
       IN  IF new_states # <<>>
           THEN /\ states_stack' = Append(states_stack, new_states)
                /\ current_pos' = current_pos + 1
                /\ pc' = "get"
           ELSE /\ pc' = "evaluate"
                /\ UNCHANGED <<states_stack, current_pos>>
    /\ UNCHANGED <<cvars, chars, states, transition_table, initial_states, start_pos,
                   current_token, op, ret, entry_pos>>

\* one iteration of the loop of Lexer::get: the next character is consumed
\* and a frontier pushed while some state of the top frontier moves on it
Get ==
    /\ pc = "get"
    /\ LET new_states == IF IsSome(PeekChar)
                         THEN NewStates(Top(states_stack), Unwrap(PeekChar))
                         ELSE <<>>
       IN  IF new_states # <<>>
           THEN /\ states_stack' = Append(states_stack, new_states)
                /\ current_pos' = current_pos + 1
                /\ pc' = "get"
           ELSE /\ pc' = "evaluate"
                /\ UNCHANGED <<states_stack, current_pos>>
    /\ UNCHANGED <<cvars, chars, states, transition_table, initial_states, start_pos,
                   current_token, op, ret, entry_pos>>

\* EvaluateStack as it would be without backtracking: an error whenever the
\* top frontier holds no accepting state
EvaluateStackNoBacktrack ==
    /\ pc = "evaluate"
    /\ LET accepting_classes == AcceptingClasses(Top(states_stack)) IN
       IF accepting_classes # {}
       THEN /\ current_token' =
                    Some(TerminalNew(MinClass(accepting_classes), CurrentSpan))
            /\ states_stack' = SubSeq(states_stack, 1, 1)
            /\ pc' = "return"
            /\ UNCHANGED <<current_pos, ret>>
       ELSE /\ ret' = Err(ReportError)
            /\ pc' = "idle"
            /\ UNCHANGED <<current_token, states_stack, current_pos>>
    /\ UNCHANGED <<cvars, chars, states, transition_table, initial_states, start_pos,
                   op, entry_pos>>

\* EvaluateStack as it would be if peek_token did not collapse the stack
\* (without states_stack.split_off(1))
EvaluateStackNoCollapse ==
    /\ pc = "evaluate"
    /\ LET accepting_classes == AcceptingClasses(Top(states_stack)) IN
       IF accepting_classes # {}
       THEN /\ current_token' =
                    Some(TerminalNew(MinClass(accepting_classes), CurrentSpan))
            /\ pc' = "return"
            /\ UNCHANGED <<states_stack, current_pos, ret>>
       ELSE IF Len(states_stack) = 1
       THEN /\ ret' = Err(ReportError)
            /\ pc' = "idle"
            /\ UNCHANGED <<current_token, states_stack, current_pos>>
       ELSE /\ states_stack' = Pop(states_stack)
            /\ current_pos' = current_pos - 1
            /\ pc' = "evaluate"
            /\ UNCHANGED <<current_token, ret>>
    /\ UNCHANGED <<cvars, chars, states, transition_table, initial_states, start_pos,
                   op, entry_pos>>

\* EvaluateStack as it would be without revert_char after the pop
EvaluateStackNoRevert ==
    /\ pc = "evaluate"
    /\ LET accepting_classes == AcceptingClasses(Top(states_stack)) IN
       IF accepting_classes # {}
       THEN /\ current_token' =
                    Some(TerminalNew(MinClass(accepting_classes), CurrentSpan))
            /\ states_stack' = SubSeq(states_stack, 1, 1)
            /\ pc' = "return"
            /\ UNCHANGED <<current_pos, ret>>
       ELSE IF Len(states_stack) = 1
       THEN /\ ret' = Err(ReportError)
            /\ pc' = "idle"
            /\ UNCHANGED <<current_token, states_stack, current_pos>>
       ELSE /\ states_stack' = Pop(states_stack)
            /\ pc' = "evaluate"
            /\ UNCHANGED <<current_token, ret, current_pos>>
    /\ UNCHANGED <<cvars, chars, states, transition_table, initial_states, start_pos,
                   op, entry_pos>>

\* EvaluateStack as it would be if the scanner stepped over the offending
\* character when it reports an error
EvaluateStackSkipOffender ==
    /\ pc = "evaluate"
    /\ LET accepting_classes == AcceptingClasses(Top(states_stack)) IN
       IF accepting_classes # {}
       THEN /\ current_token' =
                    Some(TerminalNew(MinClass(accepting_classes), CurrentSpan))
            /\ states_stack' = SubSeq(states_stack, 1, 1)
            /\ pc' = "return"
            /\ UNCHANGED <<current_pos, ret>>
       ELSE IF Len(states_stack) = 1
       THEN /\ ret' = Err(ReportError)
            /\ pc' = "idle"
            /\ current_pos' = current_pos + 1
            /\ UNCHANGED <<current_token, states_stack>>
       ELSE /\ states_stack' = Pop(states_stack)
            /\ current_pos' = current_pos - 1
            /\ pc' = "evaluate"
            /\ UNCHANGED <<current_token, ret>>
    /\ UNCHANGED <<cvars, chars, states, transition_table, initial_states, start_pos,
                   op, entry_pos>>

\* one iteration of the loop of Lexer::evaluate_stack.  With an accepting
\* state on top the terminal is returned to peek_token, which caches it and
\* collapses the stack (lexer.rs:97-98); at depth 1 the error is returned
\* through peek_token (and next_token) to the caller; otherwise the top
\* frontier is popped and one character given back
EvaluateStack ==
    /\ pc = "evaluate"
    /\ LET accepting_classes == AcceptingClasses(Top(states_stack)) IN
       IF accepting_classes # {}
       THEN /\ current_token' =
                    Some(TerminalNew(MinClass(accepting_classes), CurrentSpan))
            /\ states_stack' = SubSeq(states_stack, 1, 1)
            /\ pc' = "return"
            /\ UNCHANGED <<current_pos, ret>>
       ELSE IF Len(states_stack) = 1
       THEN /\ ret' = Err(ReportError)
            /\ pc' = "idle"
            /\ UNCHANGED <<current_token, states_stack, current_pos>>
       ELSE /\ states_stack' = Pop(states_stack)
            /\ current_pos' = current_pos - 1
            /\ pc' = "evaluate"
            /\ UNCHANGED <<current_token, ret>>
    /\ UNCHANGED <<cvars, chars, states, transition_table, initial_states, start_pos,
                   op, entry_pos>>

\* Return as it would be if peek_token emptied the cache as next_token does
ReturnForget ==
    /\ pc = "return"
    /\ ret' = Ok(Unwrap(current_token))
    /\ start_pos' = IF op = "next" THEN current_pos ELSE start_pos
    /\ current_token' = None
    /\ pc' = "idle"
    /\ UNCHANGED <<cvars, chars, states, transition_table, initial_states,
                   current_pos, states_stack, op, entry_pos>>

\* the end of peek_token (lexer.rs:101) and, in next_token, lexer.rs:85-87:
\* the boundary marker moves to the cursor and the cache is emptied
Return ==
    /\ pc = "return"
    /\ ret' = Ok(Unwrap(current_token))
    /\ IF op = "next"
       THEN /\ start_pos' = current_pos
            /\ current_token' = None
       ELSE UNCHANGED <<start_pos, current_token>>
    /\ pc' = "idle"
    /\ UNCHANGED <<cvars, chars, states, transition_table, initial_states,
                   current_pos, states_stack, op, entry_pos>>

(***************************************************************************)
(* Bounds and inputs                                                       *)
(***************************************************************************)
MaxPatLen == 3       \* patterns compiled exhaustively: at most this long
MaxSpecs == 2        \* token specifications given to one runtime lexer
MaxInputLen == 3     \* length of the source texts scanned exhaustively
MaxWordLen == 3      \* length of the words the claims run an automaton on

SeqsUpTo(S, n) == UNION {[1..k -> S] : k \in 0..n}

\* the characters the exhaustively compiled patterns are made of
PatternChars == {"a", "b", "*", "|", "(", ")", "\\", "d"}
\* the characters of the exhaustively scanned source texts
InputChars == {"a", "b", " ", "\n"}

\* the patterns of the crate documentation, the tests and the design notes
NumberPattern == <<"\\", "d", "\\", "d", "*">>
IdentPattern == <<"\\", "w", "\\", "w", "*">>
KeywordPattern == <<"i", "f">>
ExamplePatterns ==
    {NumberPattern, IdentPattern, KeywordPattern,
     <<"a", "(", "b", "c", ")", "*", "|", "\\", "d">>,
     <<"a", "b", "|", "c", "d">>,
     <<"a", "|", "b", "c">>,
     <<"a", "|", "b", "*">>,
     <<"a", "|", "(", "b", "c", ")">>,
     <<"a", "b", "|", "b">>,
     <<"a", " ", "b">>,
     <<"a", NUL, "b">>,
     <<"(", "a", "b", ")", "*">>,
     <<"a", "(", "b", "b", ")", "*">>,
     <<"a", "b", "|", "c", "*">>,
     <<"a", "|", "b", "|", "c">>,
     <<"(", "a", "|", "b", ")", "c">>,
     <<"a", "(", "b", "|", "c", ")", "*", "d">>}

\* the patterns of the token specifications the runtime lexer is run with
RunPatterns ==
    {<<"a">>, <<"a", "b">>, <<"a", "*">>, <<"a", " ", "b">>,
     <<"a", "(", "b", "b", ")", "*">>}

TokenNames == <<"A", "B", "C", "D">>
TokenSpec(name, pattern) == [name |-> name, pattern |-> pattern]
\* lists of token specifications named by position, patterns drawn from P
SpecLists(P, n) ==
    UNION {{[i \in 1..k |-> TokenSpec(TokenNames[i], ps[i])] : ps \in [1..k -> P]} :
                k \in 1..n}

\* an iteration order of a HashSet: every permutation of a small set, the
\* two directions of a fixed enumeration of a larger one
AllChars == Digits \o LowercaseLetters
            \o <<" ", "\n", "\t", "*", "|", "(", ")", "\\", NUL>>
Reverse(seq) == [i \in 1..Len(seq) |-> seq[Len(seq) + 1 - i]]
IterationOrders(set) ==
    IF Cardinality(set) <= 3
    THEN {q \in [1..Cardinality(set) -> set] : Range(q) = set}
    ELSE LET fwd == SelectSeq(AllChars, LAMBDA c : c \in set)
         IN  {fwd, Reverse(fwd)}

\* the iteration orders of the alphabets of a list of token specifications
\* (of the empty set for a pattern that does not parse)
OrdersOf(specs) ==
    {os \in [1..Len(specs) ->
                UNION {IterationOrders(ParseRegex(specs[i].pattern).alphabet) :
                            i \in 1..Len(specs)}] :
        \A i \in 1..Len(specs) :
            os[i] \in IterationOrders(ParseRegex(specs[i].pattern).alphabet)}

\* the runs of the design notes: token specifications and a source text
ExampleRuns ==
    {[specs |-> <<TokenSpec("Ident", IdentPattern), TokenSpec("Keyword", KeywordPattern)>>,
      source |-> <<"i", "f", "f", "y">>],
     [specs |-> <<TokenSpec("Keyword", KeywordPattern), TokenSpec("Ident", IdentPattern)>>,
      source |-> <<"i", "f", " ", "i", "f", "f">>],
     [specs |-> <<TokenSpec("Number", NumberPattern)>>,
      source |-> <<"1", "2", "\n", " ", "3", "x">>],
     [specs |-> <<TokenSpec("A", <<"a", "b">>)>>, source |-> <<"a", "c">>],
     [specs |-> <<TokenSpec("A", <<"a", " ", "b">>), TokenSpec("B", <<"a">>)>>,
      source |-> <<"\t", "a", " ", "b", "\r", "a">>]}

\* the token specifications and source texts of the runtime lexer's runs
Runs ==
    {[specs |-> sp, source |-> src] :
        sp \in SpecLists(RunPatterns, MaxSpecs), src \in SeqsUpTo(InputChars, MaxInputLen)}
    \cup ExampleRuns

(***************************************************************************)
(* Spec: the runtime lexer generated from compiled token specifications,   *)
(* called by a caller that peeks and takes tokens in any order             *)
(***************************************************************************)
\* Lexer::from_source_str (lexer.rs:24-74) on the tables generated for a
\* list of token specifications
Init ==
    \E specs \in {r.specs : r \in Runs} :
    \E orders \in OrdersOf(specs) :
    \E compiled \in {LexerSpecNew(specs, orders)} :
        /\ IsSome(compiled)
        /\ token_specs = specs
        /\ spec_idx = Len(specs)
        /\ cpc = "done"
        /\ dfa = <<>>
        /\ visited_states = 0
        /\ alphabet = <<>>
        /\ follow_pos_table = EmptyMap
        /\ lexer_spec = Unwrap(compiled)
        /\ states = GenStates(lexer_spec)
        /\ transition_table = GenTransitionTable(lexer_spec)
        /\ initial_states = lexer_spec.initial_states
        /\ chars \in {r.source : r \in {x \in Runs : x.specs = specs}}
        /\ start_pos = 0
        /\ current_pos = 0
        /\ current_token = None
        /\ states_stack = <<initial_states>>
        /\ pc = "idle"
        /\ op = "none"
        /\ ret = NoReturn
        /\ entry_pos = 0

Next ==
    \/ CallPeekToken
    \/ CallNextToken
    \/ SkipWhitespaces
    \/ Get
    \/ EvaluateStack
    \/ Return

Spec == Init /\ [][Next]_vars

(***************************************************************************)
(* SpecCompile: LexerSpec::new step by step                                *)
(***************************************************************************)
CompileSpecLists ==
    SpecLists(SeqsUpTo(PatternChars, MaxPatLen) \cup ExamplePatterns, 1)
    \cup SpecLists(RunPatterns, MaxSpecs)
    \cup {r.specs : r \in ExampleRuns}

\* LexerSpec::new before fill_states (lexer_spec.rs:38-44); no lexer runs
InitCompile ==
    /\ token_specs \in CompileSpecLists
    /\ spec_idx = 0
    /\ cpc = "parse"
    /\ dfa = <<>>
    /\ visited_states = 0
    /\ alphabet = <<>>
    /\ follow_pos_table = EmptyMap
    /\ lexer_spec = EmptyLexerSpec
    /\ chars = <<>>
    /\ states = <<>>
    /\ transition_table = <<>>
    /\ initial_states = <<>>
    /\ start_pos = 0
    /\ current_pos = 0
    /\ current_token = None
    /\ states_stack = <<>>
    /\ pc = "off"
    /\ op = "none"
    /\ ret = NoReturn
    /\ entry_pos = 0

\* create_dfa, lexer_spec.rs:69-74: the pattern is parsed and the result
\* unwrapped (a malformed pattern panics), the position tables are computed
\* and the first state is firstpos(root)
CreateDfaStart ==
    /\ cpc = "parse"
    /\ \E parsed \in {ParseRegex(token_specs[spec_idx + 1].pattern)} :
       IF ~parsed.ok
       THEN /\ cpc' = "panic"
            /\ UNCHANGED <<dfa, visited_states, alphabet, follow_pos_table>>
       ELSE /\ cpc' = "visit"
            /\ alphabet' \in IterationOrders(parsed.alphabet)
            /\ follow_pos_table' = CacheNew(parsed.root)
            /\ dfa' = <<DfaStateNew(FirstPos(parsed.root))>>
            /\ visited_states' = 0
    /\ UNCHANGED <<token_specs, spec_idx, lexer_spec, lvars>>

\* one iteration of the while loop of create_dfa, lexer_spec.rs:76-98
CreateDfaVisit ==
    /\ cpc = "visit"
    /\ visited_states < Len(dfa)
    /\ dfa' = VisitState(dfa, visited_states, alphabet, 1, follow_pos_table)
    /\ visited_states' = visited_states + 1
    /\ UNCHANGED <<token_specs, spec_idx, cpc, alphabet, follow_pos_table,
                   lexer_spec, lvars>>

\* create_dfa returns and fill_states appends the automaton to the flat
\* table (lexer_spec.rs:51-63), then turns to the next token specification
FillStatesAppend ==
    /\ cpc = "visit"
    /\ visited_states >= Len(dfa)
    /\ lexer_spec' = AppendDfa(lexer_spec, token_specs[spec_idx + 1], dfa)
    /\ spec_idx' = spec_idx + 1
    /\ cpc' = IF spec_idx + 1 < Len(token_specs) THEN "parse" ELSE "done"
    /\ UNCHANGED <<token_specs, dfa, visited_states, alphabet, follow_pos_table,
                   lvars>>

NextCompile ==
    \/ CreateDfaStart
    \/ CreateDfaVisit
    \/ FillStatesAppend

SpecCompile == InitCompile /\ [][NextCompile]_vars

(***************************************************************************)
(* Reference definitions for the claims: each token automaton run on its   *)
(* own over a flat table (of a LexerSpec, or the one the lexer holds)      *)
(***************************************************************************)
AutomatonStep(spec, st, c) ==
    IF st = None THEN None
    ELSE IF c \in DOMAIN spec.states[Unwrap(st) + 1].next
    THEN Some(spec.states[Unwrap(st) + 1].next[c])
    ELSE None

\* the state the automaton of token specification i is in after the word w
RECURSIVE AutomatonRun(_, _, _)
AutomatonRun(spec, i, w) ==
    IF w = <<>> THEN Some(spec.initial_states[i])
    ELSE AutomatonStep(spec, AutomatonRun(spec, i, SubSeq(w, 1, Len(w) - 1)), w[Len(w)])

StateAccepts(spec, st) == IsSome(st) /\ IsSome(spec.states[Unwrap(st) + 1].accepts)

AutomatonAccepts(spec, i, w) == StateAccepts(spec, AutomatonRun(spec, i, w))

\* the tables the lexer holds, in the shape of a LexerSpec
LoadedTables ==
    [states |-> [i \in DOMAIN states |->
                    [accepts |-> states[i].class, next |-> transition_table[i]]],
     initial_states |-> initial_states]

\* the token automata (by declaration index) that accept the k characters
\* at b
AcceptingSpecs(b, k) ==
    {i \in DOMAIN LoadedTables.initial_states :
        AutomatonAccepts(LoadedTables, i, SubSeq(chars, b + 1, b + k))}

\* the lengths of the prefixes of the input at b that some automaton accepts
AcceptedLengths(b) == {k \in 0..(Len(chars) - b) : AcceptingSpecs(b, k) # {}}

Max(S) == CHOOSE m \in S : \A n \in S : n <= m
Min(S) == CHOOSE m \in S : \A n \in S : m <= n

\* the token boundary of the call that computed the terminal last computed:
\* the first offset at or after the cursor of that call that holds no
\* whitespace, or the input length
Boundary ==
    Min({p \in entry_pos..Len(chars) : p = Len(chars) \/ ~IsWhitespace(chars[p + 1])})

\* a call has just returned a terminal that is not End
ReturnedToken == pc = "idle" /\ ret.kind = "ok" /\ ret.token.class # End

SpanLen(span) == span.end_pos - span.start_pos

(***************************************************************************)
(* Claims                                                                  *)
(***************************************************************************)
\* C1: longest match.  A terminal that is not End starts at the token
\* boundary (the first byte that is not whitespace after the previous
\* token) and its length is the greatest k such that some token automaton
\* accepts the k bytes at the boundary.
C1_LongestMatch ==
    ReturnedToken =>
        /\ ret.token.span.start_pos = Boundary
        /\ AcceptedLengths(Boundary) # {}
        /\ SpanLen(ret.token.span) = Max(AcceptedLengths(Boundary))

\* C1 witness: [Ident = \w\w*, Keyword = if] on "iffy" returns one Ident of
\* length 4 although the prefix "if" is accepted too
C1_Witness ==
    /\ ReturnedToken
    /\ chars = <<"i", "f", "f", "y">>
    /\ token_specs[1].name = "Ident"
    /\ ret.token = TerminalNew("Ident", SpanNew(0, 4))
    /\ 2 \in AcceptedLengths(0)

\* C2: tie-break.  When several token specifications accept the longest
\* prefix, the class of the terminal is that of the one declared first.
C2_TieBreak ==
    ReturnedToken =>
        LET accepting == AcceptingSpecs(ret.token.span.start_pos, SpanLen(ret.token.span))
        IN  /\ accepting # {}
            /\ ret.token.class = token_specs[Min(accepting)].name

\* C2 witness: two token specifications accept the span of the terminal
\* returned, which has length 1 or more
C2_Witness ==
    /\ ReturnedToken
    /\ SpanLen(ret.token.span) >= 1
    /\ Cardinality(AcceptingSpecs(ret.token.span.start_pos, SpanLen(ret.token.span))) >= 2
    /\ ret.token.class = token_specs[1].name

(***************************************************************************)
(* The language of a syntax tree as the crate documentation defines the    *)
(* operators (lib.rs:46-53): xy, x|y, x* "one or more occurance", (x)      *)
(***************************************************************************)
RECURSIVE RefMatch(_, _)
RefMatch(node, w) ==
    CASE node.type = "Terminal" -> w = <<node.ch>>
      [] node.type = "Cat" ->
            \E k \in 0..Len(w) :
                /\ RefMatch(node.left, SubSeq(w, 1, k))
                /\ RefMatch(node.right, SubSeq(w, k + 1, Len(w)))
      [] node.type = "Or" -> RefMatch(node.left, w) \/ RefMatch(node.right, w)
      [] node.type = "Parenthesized" -> RefMatch(node.child, w)
      [] node.type = "Kleene" ->
            \/ RefMatch(node.child, w)
            \/ \E k \in 1..(Len(w) - 1) :
                /\ RefMatch(node.child, SubSeq(w, 1, k))
                /\ RefMatch(node, SubSeq(w, k + 1, Len(w)))

\* a single token specification has been compiled; its pattern as parsed,
\* without the sentinel
CompiledOne == cpc = "done" /\ Len(token_specs) = 1
PatternTree == ParseRegex(token_specs[1].pattern).root.left
PatternAlphabet == ParseRegex(token_specs[1].pattern).alphabet
Words == SeqsUpTo(PatternAlphabet, MaxWordLen)
Accepted(w) == AutomatonAccepts(lexer_spec, 1, w)

\* C3: x* is one or more x.  For a pattern x* whose x does not match the
\* empty string, the automaton accepts x, xx and xxx and does not accept the
\* empty string (its initial state is not accepting).
C3_RepetitionOneOrMore ==
    (CompiledOne /\ PatternTree.type = "Kleene" /\ ~RefMatch(PatternTree.child, <<>>)) =>
        /\ ~Accepted(<<>>)
        /\ lexer_spec.states[lexer_spec.initial_states[1] + 1].accepts = None
        /\ \A w \in Words :
                RefMatch(PatternTree.child, w) =>
                    Accepted(w) /\ Accepted(w \o w) /\ Accepted(w \o w \o w)

\* C4: x|y matches either x or y.  The automaton of a pattern x|y accepts
\* every word x matches and every word y matches.
C4_Alternation ==
    (CompiledOne /\ PatternTree.type = "Or") =>
        \A w \in Words :
            (RefMatch(PatternTree.left, w) \/ RefMatch(PatternTree.right, w)) =>
                Accepted(w)

\* C5: Number = \d\d* compiles to initial_states = [0]; state 0 accepts
\* nothing and moves to state 1 on each of the ten digits and on nothing
\* else; state 1 accepts "Number" and moves to itself on each of the ten
\* digits and on nothing else.
C5_NumberTable ==
    (cpc = "done" /\ token_specs = <<TokenSpec("Number", NumberPattern)>>) =>
        /\ lexer_spec.initial_states = <<0>>
        /\ Len(lexer_spec.states) >= 2
        /\ lexer_spec.states[1].accepts = None
        /\ lexer_spec.states[1].next = [c \in Range(Digits) |-> 1]
        /\ lexer_spec.states[2].accepts = Some("Number")
        /\ lexer_spec.states[2].next = [c \in Range(Digits) |-> 1]

\* C5 witness: the Number specification has been compiled
C5_Witness ==
    /\ cpc = "done"
    /\ token_specs = <<TokenSpec("Number", NumberPattern)>>
    /\ Len(lexer_spec.states) = 2

\* the characters of the leaves of a tree
RECURSIVE LeafChars(_)
LeafChars(node) ==
    CASE node.type = "Terminal" -> {node.ch}
      [] node.type \in {"Cat", "Or"} -> LeafChars(node.left) \cup LeafChars(node.right)
      [] node.type \in {"Parenthesized", "Kleene"} -> LeafChars(node.child)

\* the characters the text of a pattern names: a literal, an escaped
\* operator, the ten digits for \d, the 26 lowercase letters for \w
RECURSIVE NamedChars(_, _)
NamedChars(pattern, i) ==
    IF i > Len(pattern) THEN {}
    ELSE IF pattern[i] = "\\"
    THEN (IF i + 1 > Len(pattern) THEN {}
          ELSE IF pattern[i + 1] = "d" THEN Range(Digits)
          ELSE IF pattern[i + 1] = "w" THEN Range(LowercaseLetters)
          ELSE {pattern[i + 1]})
         \cup NamedChars(pattern, i + 2)
    ELSE IF pattern[i] \in {"*", "|", "(", ")"} THEN NamedChars(pattern, i + 1)
    ELSE {pattern[i]} \cup NamedChars(pattern, i + 1)

\* the pattern create_dfa has parsed and is building the automaton of
CurrentPattern == token_specs[spec_idx + 1].pattern

\* C6: the alphabet parse_regex returns is exactly the set of characters of
\* the leaves of the tree other than the sentinel leaf: every literal, the
\* ten digits for each \d, the 26 letters for each \w, and nothing else.
C6_Alphabet ==
    cpc = "visit" =>
        /\ Range(alphabet) = LeafChars(ParseRegex(CurrentPattern).root.left)
        /\ Range(alphabet) = NamedChars(CurrentPattern, 1)

\* C6 witness: the pattern a(bc)*|\d has been parsed, with the alphabet
\* {a, b, c, 0..9}
C6_Witness ==
    /\ cpc = "visit"
    /\ CurrentPattern = <<"a", "(", "b", "c", ")", "*", "|", "\\", "d">>
    /\ Range(alphabet) = {"a", "b", "c"} \cup Range(Digits)

\* a call of peek_token or next_token has returned to its caller
Returned == pc = "idle" /\ ret.kind # "none"

EndTerminal == TerminalNew(End, SpanNew(Len(chars), Len(chars)))

\* C7: end of input.  Once only whitespace or nothing remains after the
\* boundary a call returns the End terminal with the zero-length span at the
\* input length, with the cursor at the input length; and from then on what
\* the calls return stays that End terminal and the cursor does not move.
C7_EndOfInput ==
    /\ []((Returned /\ Boundary = Len(chars)) =>
            (ret = Ok(EndTerminal) /\ current_pos = Len(chars)))
    /\ [][(ret.kind = "ok" /\ ret.token.class = End) =>
            (ret' = ret /\ current_pos' = current_pos)]_vars

\* C7 witness: End has been returned after trailing whitespace, and a later
\* next_token that has computed End again is about to return
C7_Witness ==
    /\ ret = Ok(EndTerminal)
    /\ pc = "return" /\ op = "next"
    /\ current_token = Some(EndTerminal)
    /\ Len(chars) >= 1 /\ IsWhitespace(chars[Len(chars)])

\* the offsets (from 1) that the span of the returned terminal covers
SpanOffsets == (ret.token.span.start_pos + 1)..ret.token.span.end_pos

\* the characters the lexer's tables hold a transition on
TableChars == UNION {DOMAIN transition_table[st] : st \in DOMAIN transition_table}

\* C8 as stated: no offset covered by the span of a returned terminal holds
\* a whitespace character.
C8_NoWhitespaceInSpan ==
    (Returned /\ ret.kind = "ok") =>
        \A i \in SpanOffsets : ~IsWhitespace(chars[i])

\* C8 amended: the span of a returned terminal starts at the boundary, never
\* at a whitespace character, and an offset it covers holds a whitespace
\* character only if the token automata hold a transition on that character
\* (a token pattern names it as a literal).
C8_WhitespaceOnlyFromPattern ==
    (Returned /\ ret.kind = "ok") =>
        /\ ret.token.span.start_pos = Boundary
        /\ \A i \in SpanOffsets :
                IsWhitespace(chars[i]) =>
                    /\ i # ret.token.span.start_pos + 1
                    /\ chars[i] \in TableChars

\* C8 witness: a returned terminal whose span covers a space, after
\* whitespace that was skipped
C8_Witness ==
    /\ Returned /\ ret.kind = "ok"
    /\ ret.token.span.start_pos >= 1
    /\ \E i \in SpanOffsets : chars[i] = " "

\* C9: a call returns an error exactly when input remains at the boundary
\* and no automaton accepts any prefix of the input at the boundary.
C9_ErrorExactly ==
    Returned =>
        (ret.kind = "err" <=>
            (Boundary < Len(chars) /\ AcceptedLengths(Boundary) = {}))

\* C9 witness: a terminal has been returned by backtracking (the match loop
\* read past the end of the terminal), and no error
C9_Witness ==
    /\ Returned /\ ret.kind = "ok" /\ ret.token.class # End
    /\ \E k \in (SpanLen(ret.token.span) + 1)..(Len(chars) - Boundary) :
            \E i \in DOMAIN initial_states :
                IsSome(AutomatonRun(LoadedTables, i, SubSeq(chars, Boundary + 1, Boundary + k)))

\* C9 witness of the other direction: an error has been returned after the
\* match loop consumed a character
C9_WitnessError ==
    /\ Returned /\ ret.kind = "err"
    /\ \E i \in DOMAIN initial_states :
            IsSome(AutomatonRun(LoadedTables, i, SubSeq(chars, Boundary + 1, Boundary + 1)))

\* the offset (from 0) where the line of offset b starts
LineStart(b) == Max({0} \cup {i \in 1..b : chars[i] = "\n"})

\* the offset (from 0) of the newline that ends the line of offset b, or the
\* input length
LineEnd(b) == Min({Len(chars)} \cup {i - 1 : i \in {j \in (b + 1)..Len(chars) : chars[j] = "\n"}})

\* the character at the boundary has no transition from any initial state
\* and no initial state is accepting
StuckAtBoundary ==
    /\ Boundary < Len(chars)
    /\ \A i \in DOMAIN initial_states :
        /\ chars[Boundary + 1] \notin DOMAIN transition_table[initial_states[i] + 1]
        /\ states[initial_states[i] + 1].class = None

\* C10: when the character at the boundary has no transition from any
\* initial state and no initial state is accepting, the call returns an
\* error that names that character, with the number and the text of the line
\* of the character and a caret under its column.
C10_ErrorNamesCharacter ==
    (Returned /\ StuckAtBoundary) =>
        /\ ret.kind = "err"
        /\ ret.report.found = chars[Boundary + 1]
        /\ ret.report.span_str.line_number =
                1 + Cardinality({i \in 1..Boundary : chars[i] = "\n"})
        /\ ret.report.span_str.line =
                SubSeq(chars, LineStart(Boundary) + 1, LineEnd(Boundary))
        /\ ret.report.span_str.span_marker =
                Repeat(" ", Boundary - LineStart(Boundary)) \o <<"^">>
        /\ ret.report.span_str.line[Len(ret.report.span_str.span_marker)] =
                chars[Boundary + 1]

\* C10 witness: an error on the second line, after whitespace on that line
C10_Witness ==
    /\ Returned /\ StuckAtBoundary
    /\ ret.kind = "err"
    /\ ret.report.span_str.line_number = 2
    /\ ret.report.span_str.span_marker = <<" ", "^">>

\* a call is at a point where the cache decides what it does: about to be
\* made with a terminal cached, or about to return
Memoized == IsSome(current_token) /\ pc \in {"idle", "return"}

\* C11: the peek/next protocol.  With a terminal cached, the terminal last
\* returned is the cached one; a call made then goes straight to its return,
\* returns the cached terminal and moves neither the cursor nor the frontier
\* stack, and a peek_token leaves the boundary marker and the cache as they
\* are; next_token, when it returns, sets the boundary marker to the cursor
\* and empties the cache; and a call made with the cache empty computes a
\* terminal.
C11_PeekNextProtocol ==
    /\ []((pc = "idle" /\ IsSome(current_token)) => ret = Ok(Unwrap(current_token)))
    /\ [][/\ Memoized =>
                /\ pc' \in {"idle", "return"}
                /\ current_pos' = current_pos
                /\ states_stack' = states_stack
                /\ (pc' = "idle" => ret' = Ok(Unwrap(current_token)))
          /\ (Memoized /\ op' = "peek") =>
                (start_pos' = start_pos /\ current_token' = current_token)
          /\ (pc = "return" /\ op = "next") =>
                (start_pos' = current_pos /\ current_token' = None)
          /\ (pc = "idle" /\ current_token = None) => pc' = "skip"]_vars

\* C11 witness: a second peek_token is about to return the terminal (not
\* End, not empty) that the peek_token before it cached and returned
C11_Witness ==
    /\ pc = "return" /\ op = "peek"
    /\ ret = Ok(Unwrap(current_token))
    /\ ret.token.class # End
    /\ SpanLen(ret.token.span) >= 1
    /\ current_pos < Len(chars)

\* C12: construction is deterministic.  The flat table LexerSpec::new has
\* built is the table every run of LexerSpec::new on the same token
\* specifications builds, whatever the order its alphabet sets iterate in.
C12_Deterministic ==
    cpc = "done" =>
        \A orders \in OrdersOf(token_specs) :
            LexerSpecNew(token_specs, orders) = Some(lexer_spec)

\* the automaton of a token specification has just been appended to the
\* flat table: `dfa` still holds its states
Appended == cpc \in {"parse", "done"} /\ spec_idx >= 1
AppendedSpec == token_specs[spec_idx]
AppendedRoot == ParseRegex(AppendedSpec.pattern).root

\* the sentinel position of the augmented tree of the automaton appended
SentinelPosition == RegexTerminal(AppendedRoot.right)

\* the flat state of state j (from 1) of the automaton appended
FlatState(j) == lexer_spec.states[lexer_spec.initial_states[spec_idx] + j]

\* C13: a state of an automaton is accepting (the accepts field of its flat
\* state is the token name) if and only if the sentinel position is in its
\* position set, and the sentinel character is no character of the
\* pattern's alphabet.
C13_AcceptingIffSentinel ==
    Appended =>
        /\ \A j \in 1..Len(dfa) :
                /\ FlatState(j).accepts \in {None, Some(AppendedSpec.name)}
                /\ FlatState(j).accepts = Some(AppendedSpec.name)
                        <=> SentinelPosition \in dfa[j].terminals
        /\ NUL \notin ParseRegex(AppendedSpec.pattern).alphabet

\* C14: no compilation error is swallowed.  A malformed pattern makes
\* parse_regex return a failure that carries a message, and LexerSpec::new
\* hands the failure to its caller as a value: it never panics.
C14_FailurePropagated ==
    /\ cpc = "parse" =>
            (~ParseRegex(CurrentPattern).ok => ParseRegex(CurrentPattern).err # "")
    /\ cpc # "panic"

\* the nodes of a tree
RECURSIVE Subtrees(_)
Subtrees(node) ==
    {node} \cup
    CASE node.type = "Terminal" -> {}
      [] node.type \in {"Cat", "Or"} -> Subtrees(node.left) \cup Subtrees(node.right)
      [] node.type \in {"Parenthesized", "Kleene"} -> Subtrees(node.child)

\* followpos(p) as follow_pos_table holds it
FollowPos(p) == IF p \in DOMAIN follow_pos_table THEN follow_pos_table[p] ELSE {}

\* what the two rules add to followpos(p) over all the nodes of a tree
RuleFollowPos(root, p) ==
    UNION ({FirstPos(n.right) :
                n \in {m \in Subtrees(root) : m.type = "Cat" /\ p \in LastPos(m.left)}}
           \cup {FirstPos(n.child) :
                n \in {m \in Subtrees(root) : m.type = "Kleene" /\ p \in LastPos(m.child)}})

\* C15: followpos is complete.  After Cache::new, followpos(p) of every
\* position p of the tree is exactly what the Cat rule and the Kleene rule
\* add over every node of the tree, wherever the node sits.
C15_FollowPosComplete ==
    cpc = "visit" =>
        \A n \in Subtrees(ParseRegex(CurrentPattern).root) :
            n.type = "Terminal" =>
                FollowPos(RegexTerminal(n)) =
                    RuleFollowPos(ParseRegex(CurrentPattern).root, RegexTerminal(n))

\* the union of followpos(p) over the positions p of a state whose
\* character is c
UnionOnChar(dfa_state, c) ==
    UNION {FollowPos(p) : p \in {q \in dfa_state.terminals : q.ch = c}}

\* C16: transitions follow the followpos union.  For every state the work
\* list has visited (every state of the DFA create_dfa returns) and every
\* character c of the alphabet, with U the union of followpos(p) over the
\* positions p of the state whose character is c: if U is empty the state
\* has no transition on c, otherwise it has one and its target is the state
\* whose position set is U; and it has no transition on any other character.
C16_TransitionsFollowUnion ==
    cpc = "visit" =>
        \A j \in 1..visited_states :
            /\ DOMAIN dfa[j].next \subseteq Range(alphabet)
            /\ \A c \in Range(alphabet) :
                IF UnionOnChar(dfa[j], c) = {}
                THEN c \notin DOMAIN dfa[j].next
                ELSE /\ c \in DOMAIN dfa[j].next
                     /\ dfa[j].next[c] + 1 \in 1..Len(dfa)
                     /\ dfa[dfa[j].next[c] + 1].terminals = UnionOnChar(dfa[j], c)

\* C16 witness: create_dfa is about to return a DFA of three states or
\* more, with a state that has no transition on a character of the alphabet
\* and a transition to a state discovered earlier
C16_Witness ==
    /\ cpc = "visit" /\ visited_states = Len(dfa) /\ Len(dfa) >= 3
    /\ \E j \in 1..Len(dfa) : \E c \in Range(alphabet) : c \notin DOMAIN dfa[j].next
    /\ \E j \in 2..Len(dfa) : \E c \in DOMAIN dfa[j].next : dfa[j].next[c] + 1 < j

\* the positions of the augmented tree of the pattern create_dfa works on
Positions ==
    {RegexTerminal(n) :
        n \in {m \in Subtrees(ParseRegex(CurrentPattern).root) : m.type = "Terminal"}}

\* C17: states are deduplicated.  At every step of the work-list loop the
\* states discovered so far have pairwise distinct, non-empty position sets,
\* so there are no more of them than non-empty subsets of positions; and the
\* loop terminates: every iteration visits one more state and keeps the
\* states it has, and the number of states visited never exceeds the number
\* of states, so there are at most 2^|positions| - 1 iterations.
C17_StatesDistinct ==
    /\ [](cpc = "visit" =>
            /\ \A i, j \in 1..Len(dfa) : i # j => dfa[i].terminals # dfa[j].terminals
            /\ \A i \in 1..Len(dfa) :
                    dfa[i].terminals # {} /\ dfa[i].terminals \subseteq Positions
            /\ Cardinality({dfa[i].terminals : i \in 1..Len(dfa)}) = Len(dfa)
            /\ Cardinality(Positions) <= 30 =>
                    Len(dfa) <= 2 ^ Cardinality(Positions) - 1
            /\ visited_states <= Len(dfa))
    /\ [][(cpc = "visit" /\ cpc' = "visit") =>
            /\ visited_states < Len(dfa)
            /\ visited_states' = visited_states + 1
            /\ Len(dfa') >= Len(dfa)
            /\ \A i \in 1..Len(dfa) : dfa'[i].terminals = dfa[i].terminals]_vars

\* C17 witness: the work list has met a position set it already holds (a
\* transition to a state discovered earlier) and holds three states
C17_Witness ==
    /\ cpc = "visit" /\ Len(dfa) >= 3
    /\ \E j \in 1..Len(dfa) : \E c \in DOMAIN dfa[j].next : dfa[j].next[c] + 1 <= j

\* the index range (from 0, end excluded) of the automaton of token
\* specification i in the flat table
RangeStart(i) == lexer_spec.initial_states[i]
RangeEnd(i) ==
    IF i < Len(lexer_spec.initial_states)
    THEN lexer_spec.initial_states[i + 1]
    ELSE Len(lexer_spec.states)

\* C18: the flat table is a disjoint forest.  initial_states[i] is the flat
\* index of the first state of the automaton of token specification i (the
\* automata lie one after the other from index 0, the one appended last in
\* the last Len(dfa) states), and every transition of a state in the range
\* of an automaton targets a state of the same range.
C18_DisjointForest ==
    /\ Len(lexer_spec.initial_states) = spec_idx
    /\ \A i \in DOMAIN lexer_spec.initial_states :
        /\ RangeStart(i) < RangeEnd(i)
        /\ i = 1 => RangeStart(i) = 0
        /\ \A st \in (RangeStart(i) + 1)..RangeEnd(i) :
            \A c \in DOMAIN lexer_spec.states[st].next :
                /\ RangeStart(i) <= lexer_spec.states[st].next[c]
                /\ lexer_spec.states[st].next[c] < RangeEnd(i)
    /\ Appended =>
        /\ RangeStart(spec_idx) = Len(lexer_spec.states) - Len(dfa)
        /\ \A j \in 1..Len(dfa) :
            DOMAIN FlatState(j).next = DOMAIN dfa[j].next

\* C18 witness: two token specifications have been merged and the
\* automaton of the second has a transition
C18_Witness ==
    /\ cpc = "done" /\ Len(token_specs) = 2
    /\ RangeStart(2) >= 2
    /\ \E st \in (RangeStart(2) + 1)..RangeEnd(2) : DOMAIN lexer_spec.states[st].next # {}

\* peek_token holds a cached terminal that is not End
CachedToken == IsSome(current_token) /\ Unwrap(current_token).class # End

\* C19: after a terminal that is not End is cached the frontier stack is
\* collapsed to depth 1, holding initial_states only, the cursor is at the
\* end of the span of the terminal and the boundary marker at its start.
C19_CollapsedAfterCache ==
    CachedToken =>
        /\ states_stack = <<initial_states>>
        /\ current_pos = Unwrap(current_token).span.end_pos
        /\ start_pos = Unwrap(current_token).span.start_pos

\* C19 witness: a terminal is cached that the match loop had read past: an
\* automaton moves on the character after the span
C19_Witness ==
    /\ CachedToken /\ pc = "return"
    /\ current_pos < Len(chars)
    /\ SpanLen(Unwrap(current_token).span) >= 1
    /\ \E i \in DOMAIN initial_states :
            IsSome(AutomatonRun(LoadedTables, i,
                                SubSeq(chars, start_pos + 1, current_pos + 1)))

\* the match loop or the evaluation loop is running
InLoops == pc \in {"get", "evaluate"}

\* C20: the frontier stack.  Its depth is at least 1 and at most the input
\* length + 1, its bottom entry is initial_states, and the cursor is never
\* before the boundary marker; in the match loop and the evaluation loop the
\* depth is 1 + (cursor - boundary marker); a consumed character pushes
\* exactly one frontier and a reverted character pops exactly one, and the
\* loops change the stack in no other way.
C20_FrontierStack ==
    /\ [](/\ Len(states_stack) >= 1
          /\ Len(states_stack) <= Len(chars) + 1
          /\ states_stack[1] = initial_states
          /\ start_pos <= current_pos
          /\ current_pos <= Len(chars)
          /\ InLoops => Len(states_stack) = 1 + (current_pos - start_pos))
    /\ [][(InLoops /\ pc' \in {"get", "evaluate"}) =>
            \/ /\ current_pos' = current_pos + 1
               /\ Pop(states_stack') = states_stack
            \/ /\ current_pos' = current_pos - 1
               /\ states_stack' = Pop(states_stack)
            \/ /\ current_pos' = current_pos
               /\ states_stack' = states_stack]_vars

\* C20 witness: the evaluation loop has popped a frontier and still holds
\* two
C20_Witness ==
    /\ pc = "evaluate"
    /\ Len(states_stack) = 2
    /\ current_pos = start_pos + 1
    /\ current_pos + 1 < Len(chars)
    /\ \E i \in DOMAIN initial_states :
            IsSome(AutomatonRun(LoadedTables, i,
                                SubSeq(chars, start_pos + 1, current_pos + 1)))

\* the offset at which the longest run of any token automaton from the
\* boundary stops: no automaton alive on the characters before it moves on
\* the character it holds, or it is the input length
StallOffset ==
    Boundary + Max({k \in 0..(Len(chars) - Boundary) :
                        \E i \in DOMAIN initial_states :
                            IsSome(AutomatonRun(LoadedTables, i,
                                                SubSeq(chars, Boundary + 1, Boundary + k)))})

\* C21: a lexical error report names the offending input: the character at
\* which no automaton could continue, or "EOF" when the input was exhausted
\* before any token specification accepted (pattern ab on "a" reports EOF,
\* on "ac" reports c).
C21_ErrorNamesOffender ==
    (Returned /\ ret.kind = "err") =>
        ret.report.found =
            IF StallOffset < Len(chars) THEN chars[StallOffset + 1] ELSE "EOF"

(***************************************************************************)
(* The grammar of patterns read off the text of a pattern by splitting it  *)
(* at its operators: the loosest operator outside parentheses first        *)
(***************************************************************************)
\* the lexical units of a pattern: "|", "*", "(", ")", a literal character
\* (escaped or not) and a class (\d, \w) with the characters it stands for
RefUnit(kind, class) == [kind |-> kind, class |-> class]
RECURSIVE RefUnits(_, _)
RefUnits(pattern, i) ==
    IF i > Len(pattern) THEN <<>>
    ELSE IF pattern[i] = "\\"
    THEN <<(IF i + 1 > Len(pattern) THEN RefUnit("bad", <<>>)
            ELSE IF pattern[i + 1] = "d" THEN RefUnit("leaf", Digits)
            ELSE IF pattern[i + 1] = "w" THEN RefUnit("leaf", LowercaseLetters)
            ELSE IF pattern[i + 1] \in {"*", "|", "(", ")", "\\"}
            THEN RefUnit("leaf", <<pattern[i + 1]>>)
            ELSE RefUnit("bad", <<>>))>> \o RefUnits(pattern, i + 2)
    ELSE IF pattern[i] \in {"*", "|", "(", ")"}
    THEN <<RefUnit(pattern[i], <<>>)>> \o RefUnits(pattern, i + 1)
    ELSE <<RefUnit("leaf", <<pattern[i]>>)>> \o RefUnits(pattern, i + 1)

\* how many of the units i..j are of a kind
CountKind(units, i, j, kind) == Cardinality({k \in i..j : units[k].kind = kind})

\* the number of leaves the units stand for
RECURSIVE RefLeaves(_)
RefLeaves(units) ==
    IF units = <<>> THEN 0
    ELSE Len(units[Len(units)].class) + RefLeaves(SubSeq(units, 1, Len(units) - 1))

\* the bars of the units that are outside every pair of parentheses
TopBars(units) ==
    {k \in 1..Len(units) :
        /\ units[k].kind = "|"
        /\ CountKind(units, 1, k, "(") = CountKind(units, 1, k, ")")}

\* where the last factor of the units starts: at its atom, which is the last
\* unit before an optional star, or the group that unit closes
AtomEnd(units) == IF units[Len(units)].kind = "*" THEN Len(units) - 1 ELSE Len(units)
LastFactorStart(units) ==
    IF units[AtomEnd(units)].kind = ")"
    THEN Max({j \in 1..AtomEnd(units) :
                /\ units[j].kind = "("
                /\ CountKind(units, j, AtomEnd(units), "(")
                        = CountKind(units, j, AtomEnd(units), ")")})
    ELSE AtomEnd(units)

\* a class: the alternation c1|c2|...|cn of its characters, read as the
\* grammar reads any alternation; a literal is a class of one character
RECURSIVE RefClass(_, _, _)
RefClass(class, n, pos) ==
    IF n = 1 THEN Terminal(class[1], pos)
    ELSE Or(RefClass(class, n - 1, pos), Terminal(class[n], pos + n - 1))

\* the tree of the units, whose first leaf has position pos: an alternation
\* splits at its last bar outside parentheses (left-associative, loosest), a
\* concatenation splits before its last factor (left-associative), a factor
\* is an atom with at most one star, an atom is a leaf or a group
RECURSIVE RefOr(_, _), RefCat(_, _), RefFactor(_, _), RefAtom(_, _)
RefOr(units, pos) ==
    IF TopBars(units) = {} THEN RefCat(units, pos)
    ELSE Or(RefOr(SubSeq(units, 1, Max(TopBars(units)) - 1), pos),
            RefCat(SubSeq(units, Max(TopBars(units)) + 1, Len(units)),
                   pos + RefLeaves(SubSeq(units, 1, Max(TopBars(units))))))

RefCat(units, pos) ==
    IF LastFactorStart(units) = 1 THEN RefFactor(units, pos)
    ELSE Cat(RefCat(SubSeq(units, 1, LastFactorStart(units) - 1), pos),
             RefFactor(SubSeq(units, LastFactorStart(units), Len(units)),
                       pos + RefLeaves(SubSeq(units, 1, LastFactorStart(units) - 1))))

RefFactor(units, pos) ==
    IF units[Len(units)].kind = "*"
    THEN Kleene(RefAtom(SubSeq(units, 1, Len(units) - 1), pos))
    ELSE RefAtom(units, pos)

RefAtom(units, pos) ==
    IF units[1].kind = "(" /\ units[Len(units)].kind = ")"
    THEN Parenthesized(RefOr(SubSeq(units, 2, Len(units) - 1), pos))
    ELSE RefClass(units[1].class, Len(units[1].class), pos)

\* the tree of a pattern with the sentinel concatenated at the root
RefTree(pattern) ==
    Cat(RefOr(RefUnits(pattern, 1), 0),
        Terminal(NUL, RefLeaves(RefUnits(pattern, 1))))

\* two star operators in a row
TwoStars(units) ==
    \E k \in 1..(Len(units) - 1) : units[k].kind = "*" /\ units[k + 1].kind = "*"

\* create_dfa has just parsed the pattern of the current token specification
JustParsed == cpc = "visit" /\ visited_states = 0 /\ Len(dfa) = 1

\* C22: precedence and associativity.  The tree of a pattern that parses is
\* the one its text has when * binds tighter than concatenation,
\* concatenation tighter than |, both are left-associative and parentheses
\* group, with the sentinel concatenated at the root; no star is applied to
\* a starred expression, and a pattern with two stars in a row does not
\* parse; ab|c* is Or(Cat(a,b), Kleene(c)) and a|b|c is Or(Or(a,b),c).
C22_Precedence ==
    /\ JustParsed =>
        /\ ParseRegex(CurrentPattern).ok
        /\ ParseRegex(CurrentPattern).root = RefTree(CurrentPattern)
        /\ dfa[1].terminals = FirstPos(RefTree(CurrentPattern))
        /\ \A n \in Subtrees(ParseRegex(CurrentPattern).root) :
                n.type = "Kleene" => n.child.type # "Kleene"
        /\ ~TwoStars(RefUnits(CurrentPattern, 1))
        /\ CurrentPattern = <<"a", "b", "|", "c", "*">> =>
                ParseRegex(CurrentPattern).root =
                    Cat(Or(Cat(Terminal("a", 0), Terminal("b", 1)),
                           Kleene(Terminal("c", 2))),
                        Terminal(NUL, 3))
        /\ CurrentPattern = <<"a", "|", "b", "|", "c">> =>
                ParseRegex(CurrentPattern).root =
                    Cat(Or(Or(Terminal("a", 0), Terminal("b", 1)), Terminal("c", 2)),
                        Terminal(NUL, 3))
    /\ (cpc = "parse" /\ TwoStars(RefUnits(CurrentPattern, 1))) =>
        ~ParseRegex(CurrentPattern).ok

\* C22 witness: ab|c* has been parsed
C22_Witness ==
    /\ JustParsed
    /\ CurrentPattern = <<"a", "b", "|", "c", "*">>
    /\ ParseRegex(CurrentPattern).root.left.right = Kleene(Terminal("c", 2))

\* a call has just returned a lexical error
ReturnedError == pc = "idle" /\ ret.kind = "err"

\* C23: a lexical error leaves the scanner clean and repeatable.  When a
\* call has returned an error the cache is empty, the frontier stack holds
\* initial_states only, and the cursor and the boundary marker are both at
\* the first byte that is not whitespace of the failed token; from then on
\* every call returns the same error and no terminal.
C23_CleanAfterError ==
    /\ [](ReturnedError =>
            /\ current_token = None
            /\ states_stack = <<initial_states>>
            /\ current_pos = Boundary
            /\ start_pos = Boundary
            /\ Boundary < Len(chars)
            /\ ~IsWhitespace(chars[Boundary + 1]))
    /\ [][ret.kind = "err" => (ret' = ret /\ current_token' = None)]_vars

\* C23 witness: on " b" with the pattern a, a call of next_token that
\* started at the offending character (a call made after the error was
\* first returned) has returned the error again
C23_Witness ==
    /\ ReturnedError
    /\ chars = <<" ", "b">>
    /\ op = "next"
    /\ entry_pos = 1
    /\ current_pos = 1
    /\ ret.report.found = "b"

\* the state of the automaton of token specification i after the d
\* characters at the boundary marker
RunFromMarker(i, d) ==
    AutomatonRun(LoadedTables, i, SubSeq(chars, start_pos + 1, start_pos + d))

\* the token specifications whose automaton is alive after d characters, in
\* declaration order
AliveAfter(d) ==
    SelectSeq([i \in 1..Len(initial_states) |-> i], LAMBDA i : IsSome(RunFromMarker(i, d)))

\* the states of the automata in `alive` after d characters
StatesOfAlive(alive, d) == [j \in 1..Len(alive) |-> Unwrap(RunFromMarker(alive[j], d))]

\* the token specification whose automaton owns a state of the flat table:
\* the last one whose initial state is not after it
OwnerOf(st) == Max({i \in 1..Len(initial_states) : initial_states[i] <= st})

\* C24: every frontier on the stack holds at most one state per token
\* automaton and no state twice: the frontier at depth d+1 holds, for each
\* token specification in declaration order, the state its automaton is in
\* after the d consumed characters if it is still alive; a frontier is never
\* larger than the one below it nor than the number of token specifications.
C24_OneStatePerAutomaton ==
    \A d \in 0..(Len(states_stack) - 1) :
        /\ states_stack[d + 1] = StatesOfAlive(AliveAfter(d), d)
        /\ Cardinality(Range(states_stack[d + 1])) = Len(states_stack[d + 1])
        /\ \A j, k \in 1..Len(states_stack[d + 1]) :
                j < k => OwnerOf(states_stack[d + 1][j]) < OwnerOf(states_stack[d + 1][k])
        /\ Len(states_stack[d + 1]) <= Len(initial_states)
        /\ d >= 1 => /\ states_stack[d + 1] # <<>>
                     /\ Len(states_stack[d + 1]) <= Len(states_stack[d])

\* C24 witness: of two automata alive after one character, one has died
\* after a later one
C24_Witness ==
    /\ Len(initial_states) = 2
    /\ Len(states_stack) >= 3
    /\ Len(states_stack[2]) = 2
    /\ Len(Top(states_stack)) = 1
    /\ OwnerOf(Top(states_stack)[1]) = 2

\* C25: progress.  Every terminal returned that is not End has a span that
\* is not empty (end_pos > start_pos), and a call of next_token that returns
\* such a terminal leaves the cursor strictly after the offset it was called
\* at, so that repeated calls reach End or a lexical error.
C25_NonEmptySpan ==
    ReturnedToken =>
        /\ ret.token.span.end_pos > ret.token.span.start_pos
        /\ op = "next" => current_pos > entry_pos

====
